---- MODULE Spec2Model ----
(***************************************************************************)
(* Origin validation and fetch pipeline of the image handler:              *)
(*   OriginFetcher.fetchImage          (origin-fetcher.ts)                 *)
(*   ConnectionManager.validateOriginUrl (connection-manager.ts)           *)
(* One behaviour of the model is one call of one of the two operations,    *)
(* split at its await points; the origin's answers are the inputs.         *)
(*                                                                         *)
(* A JavaScript string that the code inspects (content types, hex headers, *)
(* format symbols) is a sequence of one-character strings, so that         *)
(* toLowerCase, trim, split, startsWith, includes and replace are computed *)
(* and not assumed. A Buffer is a sequence of integers 0..255.             *)
(* The caller's headers travel with the request unchanged and are left     *)
(* out of the state.                                                       *)
(***************************************************************************)
EXTENDS Integers, Sequences, FiniteSets, TLC

(* ------------------------------ bounds --------------------------------- *)
\* longest body the origin delivers, in bytes
MaxBodyLen == 5
\* number of clock ticks a call may stay in flight
MaxTicks == 4

(* ------------------------- JavaScript strings -------------------------- *)
UpperLetters == <<"A","B","C","D","E","F","G","H","I","J","K","L","M",
                  "N","O","P","Q","R","S","T","U","V","W","X","Y","Z">>
LowerLetters == <<"a","b","c","d","e","f","g","h","i","j","k","l","m",
                  "n","o","p","q","r","s","t","u","v","w","x","y","z">>
Digits == <<"0","1","2","3","4","5","6","7","8","9">>
Whitespace == {" ", "\t"}

LowerChar(c) ==
  IF \E i \in 1..26 : UpperLetters[i] = c
  THEN LowerLetters[CHOOSE i \in 1..26 : UpperLetters[i] = c]
  ELSE c

UpperChar(c) ==
  IF \E i \in 1..26 : LowerLetters[i] = c
  THEN UpperLetters[CHOOSE i \in 1..26 : LowerLetters[i] = c]
  ELSE c

toLowerCase(s) == [i \in 1..Len(s) |-> LowerChar(s[i])]
toUpperCase(s) == [i \in 1..Len(s) |-> UpperChar(s[i])]

startsWith(s, p) == Len(s) >= Len(p) /\ SubSeq(s, 1, Len(p)) = p

\* positions at which p occurs in s
Occurrences(s, p) ==
  {i \in 1..(Len(s) - Len(p) + 1) : SubSeq(s, i, i + Len(p) - 1) = p}

includes(s, p) == Occurrences(s, p) # {}

SetMin(S) == CHOOSE x \in S : \A y \in S : x <= y
SetMax(S) == CHOOSE x \in S : \A y \in S : x >= y

\* String.prototype.replace with a string pattern: the first occurrence only
replace(s, p, r) ==
  IF includes(s, p)
  THEN LET i == SetMin(Occurrences(s, p))
       IN SubSeq(s, 1, i - 1) \o r \o SubSeq(s, i + Len(p), Len(s))
  ELSE s

\* s.split(sep)[0] for a one-character separator
splitFirst(s, sep) ==
  LET at == {i \in 1..Len(s) : s[i] = sep}
  IN IF at = {} THEN s ELSE SubSeq(s, 1, SetMin(at) - 1)

trim(s) ==
  LET keep == {i \in 1..Len(s) : s[i] \notin Whitespace}
  IN IF keep = {} THEN <<>> ELSE SubSeq(s, SetMin(keep), SetMax(keep))

\* an optional string: undefined / null, or a value
Undefined == [present |-> FALSE, value |-> <<>>]
Some(s) == [present |-> TRUE, value |-> s]
\* JavaScript truthiness of an optional string: the empty string is falsy
Truthy(o) == o.present /\ o.value # <<>>

(* ----------------------------- Buffers --------------------------------- *)
HexDigits == <<"0","1","2","3","4","5","6","7","8","9","a","b","c","d","e","f">>

\* buffer.toString('hex'): two lowercase hexadecimal digits per byte
toHex(buf) ==
  [i \in 1..(2 * Len(buf)) |->
     IF i % 2 = 1 THEN HexDigits[(buf[(i + 1) \div 2] \div 16) + 1]
                  ELSE HexDigits[(buf[i \div 2] % 16) + 1]]

\* buffer.subarray(0, n)
subarray(buf, n) == SubSeq(buf, 1, IF Len(buf) < n THEN Len(buf) ELSE n)

(* --------------------------- typed errors ------------------------------ *)
\* Every error value has the same shape. class is the constructor; the
\* fields a class does not have are "" / 0 / <<>>.
\*   statusCode, errorType : ImageProcessingError; statusCode, code : ConnectionError
\*   name                  : Error.prototype.name of the object
\*   code, respStatus      : AxiosError.code, AxiosError.response.status
\*   metaStatus            : $metadata.httpStatusCode of an object-store error
MkError(class, name, statusCode, errorType, message, code, respStatus, metaStatus) ==
  [class |-> class, name |-> name, statusCode |-> statusCode,
   errorType |-> errorType, message |-> message, code |-> code,
   respStatus |-> respStatus, metaStatus |-> metaStatus]

NoError == MkError("", "", 0, "", <<>>, "", 0, 0)

ImageProcessingError(statusCode, errorType, message) ==
  MkError("ImageProcessingError", "ImageProcessingError", statusCode, errorType,
          message, "", 0, 0)

ConnectionError(title, message, statusCode, code) ==
  MkError("ConnectionError", "ConnectionError", statusCode, "",
          <<title>> \o message, code, 0, 0)

(* ------------------------------ inputs --------------------------------- *)
\* A URL is its text cut into scheme, host, path and query ("" or "?...");
\* the text the code sees is the four parts joined.
Url(scheme, host, path, query) ==
  [scheme |-> scheme, host |-> host, path |-> path, query |-> query]

UrlText(u) == <<u.scheme, u.host, u.path, u.query>>

Urls ==
  { Url("https://", "example.com", "/image.jpg", ""),
    Url("https://", "example.com", "/image.jpg", "?w=100"),
    Url("http://", "example.com", "/image.jpg", ""),
    Url("ftp://", "example.com", "/image.jpg", ""),
    Url("https://", "exa mple.com", "/image.jpg", ""),
    Url("https://", "bucket.s3.amazonaws.com", "/key", ""),
    Url("https://", "bucket.s3.us-west-2.amazonaws.com", "/key", "?v=1"),
    Url("https://", "bucket.s3-eu-central-1.amazonaws.com", "/key", ""),
    Url("https://", "s3.us-west-2.amazonaws.com", "/bucket/key", ""),
    Url("https://", "s3.us-west-2.amazonaws.com", "/bucket", "") }

image_ == <<"i","m","a","g","e","/">>
jpeg == <<"j","p","e","g">>
png == <<"p","n","g">>
gif == <<"g","i","f">>
webp == <<"w","e","b","p">>
tiff == <<"t","i","f","f">>
binaryOctetStream ==
  <<"b","i","n","a","r","y","/","o","c","t","e","t","-","s","t","r","e","a","m">>
text_html == <<"t","e","x","t","/","h","t","m","l">>

\* the content types an origin declares in the model
ContentTypeValues ==
  { image_ \o jpeg,
    image_ \o png,
    image_ \o <<"j","p","g">>,
    image_ \o <<"a","v","i","f">>,
    image_ \o <<"u","n","k","n","o","w","n">>,
    <<"I","M","A","G","E","/","J","P","E","G">>,
    image_ \o png \o <<";"," ","q","=","1">>,
    <<" ">> \o image_ \o gif \o <<" ">>,
    binaryOctetStream,
    binaryOctetStream \o <<"x">>,
    <<"B","i","n","a","r","y","/","O","c","t","e","t","-","S","t","r","e","a","m">>,
    text_html,
    text_html \o <<";","x","=">> \o image_ \o png,
    <<"c","o","n","s","t","r","u","c","t","o","r">>,
    <<>> }

ContentTypes == {Undefined} \cup {Some(v) : v \in ContentTypeValues}

\* first bytes of the bodies an origin delivers: the six registered
\* signatures, a PNG signature with its last byte off by one, and no signature
Headers ==
  { <<255, 216, 255, 224>>,
    <<137, 80, 78, 71>>,
    <<71, 73, 70, 56>>,
    <<82, 73, 70, 70>>,
    <<73, 73, 42, 0>>,
    <<77, 77, 0, 42>>,
    <<137, 80, 78, 70>>,
    <<0, 1, 2, 3>> }

BodyOf(h, n) == [i \in 1..n |-> IF i <= Len(h) THEN h[i] ELSE 0]

Bodies == {BodyOf(h, n) : h \in Headers, n \in 0..MaxBodyLen}

(* ------------------- collaborators outside the core -------------------- *)
\* S3UrlHelper.isS3Url: legacy, regional, dash-region and path-style hosts
S3Shape(u) ==
  CASE u.host = "bucket.s3.amazonaws.com" -> "legacy"
    [] u.host = "bucket.s3.us-west-2.amazonaws.com" -> "regional"
    [] u.host = "bucket.s3-eu-central-1.amazonaws.com" -> "dash-region"
    [] u.host = "s3.us-west-2.amazonaws.com" -> "path-style"
    [] OTHER -> "none"

isS3Url(u) == u.scheme = "https://" /\ S3Shape(u) # "none"

\* S3UrlHelper.parseS3Url: {bucket, key}, or throws Error('Invalid S3 URL format')
parseS3Url(u) ==
  IF isS3Url(u) /\ u.path # "/bucket"
  THEN [threw |-> FALSE, error |-> NoError, bucket |-> "bucket", key |-> "key"]
  ELSE [threw |-> TRUE,
        error |-> MkError("Error", "Error", 0, "", <<"Invalid S3 URL format">>, "", 0, 0),
        bucket |-> "", key |-> ""]

\* UrlValidator.validate: passes a well-formed https URL, throws an Error otherwise
UrlValidator_validate(u) ==
  CASE u.host = "exa mple.com" ->
         [threw |-> TRUE,
          error |-> MkError("Error", "Error", 0, "", <<"Invalid URL format">>, "", 0, 0)]
    [] u.scheme = "http://" ->
         [threw |-> TRUE,
          error |-> MkError("Error", "Error", 0, "",
                            <<"HTTP ", "protocol", " not allowed">>, "", 0, 0)]
    [] u.scheme # "https://" ->
         [threw |-> TRUE,
          error |-> MkError("Error", "Error", 0, "",
                            <<"Unsupported ", "protocol">>, "", 0, 0)]
    [] OTHER -> [threw |-> FALSE, error |-> NoError]

\* S3ErrorHandler.mapError: {statusCode, errorType, message}, or nothing
S3ErrorHandler_mapError(error) ==
  CASE error.name = "NoSuchKey" ->
         [mapped |-> TRUE, statusCode |-> 404, errorType |-> "KeyNotFound",
          message |-> error.message]
    [] error.name = "AccessDenied" ->
         [mapped |-> TRUE, statusCode |-> 403, errorType |-> "AccessDenied",
          message |-> error.message]
    [] OTHER ->
         [mapped |-> FALSE, statusCode |-> 0, errorType |-> "", message |-> <<>>]

\* what the object-store client rejects with
S3Errors ==
  { MkError("S3ServiceException", "NoSuchKey", 0, "",
            <<"The specified key does not exist.">>, "", 0, 404),
    MkError("S3ServiceException", "NotFound", 0, "", <<"UnknownError">>, "", 0, 404),
    MkError("S3ServiceException", "AccessDenied", 0, "", <<"Access Denied">>, "", 0, 403),
    MkError("S3ServiceException", "InternalError", 0, "",
            <<"We encountered an internal error.">>, "", 0, 500),
    MkError("Error", "Error", 0, "", <<"socket hang up">>, "", 0, 0) }

\* what fetch() and response.arrayBuffer() reject with, the abort aside
FetchErrors ==
  { MkError("TypeError", "TypeError", 0, "", <<"fetch failed">>, "", 0, 0),
    MkError("TypeError", "TypeError", 0, "", <<"terminated">>, "", 0, 0) }

AbortError ==
  MkError("DOMException", "AbortError", 0, "", <<"This operation was aborted">>, "", 0, 0)

(* --------------------- JavaScript object literals ---------------------- *)
\* An object literal is the sequence of its <<key, value>> pairs as written.
RECURSIVE NumVal(_)
NumVal(k) ==
  IF k = <<>> THEN 0
  ELSE 10 * NumVal(SubSeq(k, 1, Len(k) - 1))
       + (CHOOSE d \in 0..9 : Digits[d + 1] = k[Len(k)])

\* a key that is a canonical array index (keys of ten digits or more do not occur)
IsArrayIndex(k) ==
  /\ Len(k) \in 1..9
  /\ \A i \in 1..Len(k) : \E d \in 1..10 : Digits[d] = k[i]
  /\ (Len(k) = 1 \/ k[1] # "0")

\* Object.entries: integer-like keys first, ascending, then the other keys in
\* the order they were written
ObjectEntries(obj) ==
  SortSeq(SelectSeq(obj, LAMBDA e : IsArrayIndex(e[1])),
          LAMBDA a, b : NumVal(a[1]) < NumVal(b[1]))
  \o SelectSeq(obj, LAMBDA e : ~IsArrayIndex(e[1]))

\* the members every object literal inherits whose names are all lower case
\* (a key that went through toLowerCase can name no other inherited member)
ObjectPrototypeMembers ==
  << << <<"c","o","n","s","t","r","u","c","t","o","r">>,
        <<"function Object() { [native code] }">> >>,
     << <<"_","_","p","r","o","t","o","_","_">>,
        <<"[object Object]">> >> >>

\* obj[key]: the own property, else the inherited one, else undefined
GetProperty(obj, key) ==
  LET own == SelectSeq(obj, LAMBDA e : e[1] = key)
      inherited == SelectSeq(ObjectPrototypeMembers, LAMBDA e : e[1] = key)
  IN IF own # <<>> THEN Some(own[1][2])
     ELSE IF inherited # <<>> THEN Some(inherited[1][2])
     ELSE Undefined

(* --------------------------- OriginFetcher ----------------------------- *)
httpTimeout == 30000

magicToFormat ==
  << << <<"F","F","D","8","F","F">>, jpeg >>,
     << <<"8","9","5","0","4","E","4","7">>, png >>,
     << <<"4","7","4","9","4","6","3","8">>, gif >>,
     << <<"5","2","4","9","4","6","4","6">>, webp >>,
     << <<"4","9","4","9","2","A","0","0">>, tiff >>,
     << <<"4","D","4","D","0","0","2","A">>, tiff >> >>

contentTypeToFormat ==
  << << image_ \o webp, webp >>,
     << image_ \o png, png >>,
     << image_ \o jpeg, jpeg >>,
     << image_ \o <<"j","p","g">>, jpeg >>,
     << image_ \o tiff, tiff >>,
     << image_ \o gif, gif >> >>

validTypes ==
  << image_ \o jpeg, image_ \o <<"j","p","g">>, image_ \o png, image_ \o webp,
     image_ \o gif, image_ \o tiff, image_ \o <<"a","v","i","f">>,
     image_ \o <<"h","e","i","f">> >>

Returned(v) == [threw |-> FALSE, error |-> NoError, value |-> v]
Threw(e) == [threw |-> TRUE, error |-> e, value |-> Undefined]

TooSmall ==
  ImageProcessingError(415, "InvalidImage", <<"File too small to be a valid image">>)

\* the for..break loop over Object.entries(magicToFormat)
MagicScan(fileHeader) ==
  LET hits == SelectSeq(ObjectEntries(magicToFormat),
                        LAMBDA e : startsWith(fileHeader, e[1]))
  IN IF hits = <<>> THEN Undefined ELSE Some(hits[1][2])

detectedFormat(buffer) ==
  IF Len(buffer) < 4 THEN Threw(TooSmall)
  ELSE Returned(MagicScan(toUpperCase(toHex(subarray(buffer, 4)))))

isValidImageContentType(contentType) ==
  \E i \in 1..Len(validTypes) : includes(toLowerCase(contentType), validTypes[i])

\* faulty variant: the floor is three bytes
validateImageMagicNumbers_floor3(buffer, contentType) ==
  IF Len(buffer) < 3 THEN Threw(TooSmall)
  ELSE LET detected == MagicScan(toUpperCase(toHex(subarray(buffer, 4))))
           expectedFormat ==
             IF Truthy(contentType)
             THEN GetProperty(contentTypeToFormat, toLowerCase(contentType.value))
             ELSE Undefined
       IN IF Truthy(contentType) /\ Truthy(expectedFormat) /\ ~Truthy(detected)
          THEN Threw(ImageProcessingError(415, "InvalidImage",
                       <<"Invalid or corrupted ">> \o expectedFormat.value \o <<" file">>))
          ELSE Returned(Undefined)

validateImageMagicNumbers(buffer, contentType) ==
  IF Len(buffer) < 4 THEN Threw(TooSmall)
  ELSE LET detected == MagicScan(toUpperCase(toHex(subarray(buffer, 4))))
           expectedFormat ==
             IF Truthy(contentType)
             THEN GetProperty(contentTypeToFormat, toLowerCase(contentType.value))
             ELSE Undefined
       IN IF Truthy(contentType) /\ Truthy(expectedFormat) /\ ~Truthy(detected)
          THEN Threw(ImageProcessingError(415, "InvalidImage",
                       <<"Invalid or corrupted ">> \o expectedFormat.value \o <<" file">>))
          ELSE Returned(Undefined)

\* faulty variant: an error no mapping recognises is handed on as it is
handleFetchError_leaksRaw(error, url) ==
  IF error.class = "ImageProcessingError" THEN error
  ELSE LET mappedError == S3ErrorHandler_mapError(error)
       IN IF mappedError.mapped
          THEN ImageProcessingError(
                 mappedError.statusCode,
                 IF mappedError.errorType = "KeyNotFound" THEN "ImageNotFound"
                 ELSE mappedError.errorType,
                 mappedError.message)
          ELSE error

\* faulty variant: the translator's kind is kept as it is
handleFetchError_keepsKind(error, url) ==
  IF error.class = "ImageProcessingError" THEN error
  ELSE LET mappedError == S3ErrorHandler_mapError(error)
       IN IF mappedError.mapped
          THEN ImageProcessingError(mappedError.statusCode, mappedError.errorType,
                                    mappedError.message)
          ELSE ImageProcessingError(500, "FetchError",
                 <<"Failed to fetch image from ">> \o UrlText(url) \o <<": ">>
                 \o error.message)

handleFetchError(error, url) ==
  IF error.class = "ImageProcessingError" THEN error
  ELSE LET mappedError == S3ErrorHandler_mapError(error)
       IN IF mappedError.mapped
          THEN ImageProcessingError(
                 mappedError.statusCode,
                 IF mappedError.errorType = "KeyNotFound" THEN "ImageNotFound"
                 ELSE mappedError.errorType,
                 mappedError.message)
          ELSE ImageProcessingError(500, "FetchError",
                 <<"Failed to fetch image from ">> \o UrlText(url) \o <<": ">>
                 \o error.message)

\* A line on the console: the text of a template string, or the members of a
\* JSON object as <<key, value>> pairs in the order written.
TextLine(text) == [json |-> FALSE, text |-> text, members |-> <<>>]
JsonLine(members) == [json |-> TRUE, text |-> <<>>, members |-> members]

\* JSON.stringify of an object literal given as <<key, optional value>> pairs:
\* a member whose value is undefined is left out
JSON_stringify(obj) ==
  LET kept == SelectSeq(obj, LAMBDA e : e[2].present)
  IN JsonLine([i \in 1..Len(kept) |-> <<kept[i][1], kept[i][2].value>>])

\* the line fetchFromS3 writes before it sends the GET
fetchFromS3_attempt(url) ==
  TextLine(<<"Attempting to fetch from bucket: ", parseS3Url(url).bucket,
             " and key: ", parseS3Url(url).key>>)

\* new URL(url) parses unless the host is malformed; the fallback cuts at '?'
sanitizeUrl(url) == <<url.scheme, url.host, url.path>>

\* fetchFromS3's catch clause
fetchFromS3_catch(error, url) ==
  IF error.message = <<"Invalid S3 URL format">>
  THEN ImageProcessingError(400, "InvalidS3Url", error.message)
  ELSE handleFetchError(error, url)

\* fetchFromS3 after the client answered: Body is absent or a byte sequence
fetchFromS3_response(body, contentType, url) ==
  IF ~body.present
  THEN Threw(fetchFromS3_catch(
         ImageProcessingError(404, "ImageNotFound", <<"Image not found in S3">>), url))
  ELSE Returned([buffer |-> body.value, contentType |-> contentType])

\* fetchFromHttp's catch clause
fetchFromHttp_catch(error, url) ==
  IF error.name = "AbortError"
  THEN ImageProcessingError(504, "RequestTimeout", <<"Origin Request timeout">>)
  ELSE handleFetchError(error, url)

IsBinaryOctetStream(contentType) ==
  trim(toLowerCase(contentType)) = binaryOctetStream

\* faulty variant: the declared content type is judged before the status
fetchFromHttp_headers_typeFirst(status, contentType, url) ==
  IF /\ Truthy(contentType)
     /\ ~IsBinaryOctetStream(contentType.value)
     /\ ~isValidImageContentType(contentType.value)
  THEN Threw(fetchFromHttp_catch(
         ImageProcessingError(415, "InvalidContentType",
           <<"Invalid content type: ">> \o contentType.value), url))
  ELSE IF status \notin 200..299
  THEN Threw(fetchFromHttp_catch(
         ImageProcessingError(status, "HttpFetchError",
           <<"Failed to fetch image: ", ToString(status)>>), url))
  ELSE Returned(contentType)

\* fetchFromHttp from the response headers to the body read
fetchFromHttp_headers(status, contentType, url) ==
  IF status \notin 200..299
  THEN Threw(fetchFromHttp_catch(
         ImageProcessingError(status, "HttpFetchError",
           <<"Failed to fetch image: ", ToString(status)>>), url))
  ELSE IF /\ Truthy(contentType)
          /\ ~IsBinaryOctetStream(contentType.value)
          /\ ~isValidImageContentType(contentType.value)
  THEN Threw(fetchFromHttp_catch(
         ImageProcessingError(415, "InvalidContentType",
           <<"Invalid content type: ">> \o contentType.value), url))
  ELSE Returned(contentType)

\* fetchFromHttp from the drained body to its return; contentType is null
\* when the response declared none
fetchFromHttp_body(buffer, contentType, url) ==
  LET detected == detectedFormat(buffer)
  IN IF detected.threw THEN Threw(fetchFromHttp_catch(detected.error, url))
     ELSE IF ~contentType.present
     THEN Threw(fetchFromHttp_catch(
            MkError("TypeError", "TypeError", 0, "",
                    <<"Cannot read properties of null (reading 'toLowerCase')">>,
                    "", 0, 0), url))
     ELSE IF IsBinaryOctetStream(contentType.value) /\ ~Truthy(detected.value)
     THEN Threw(fetchFromHttp_catch(
            ImageProcessingError(415, "InvalidImage",
              <<"Invalid or corrupted Content-Type ">> \o contentType.value
              \o <<" file">>), url))
     ELSE Returned([buffer |-> buffer,
                    contentType |-> IF Truthy(contentType) THEN contentType
                                    ELSE Undefined])

\* the caller's view of a call
Pending == [state |-> "pending", buffer |-> <<>>, size |-> 0,
            format |-> Undefined, error |-> NoError]
Rejected(e) == [state |-> "rejected", buffer |-> <<>>, size |-> 0,
                format |-> Undefined, error |-> e]
Resolved(buffer, size, format) ==
  [state |-> "resolved", buffer |-> buffer, size |-> size,
   format |-> format, error |-> NoError]

\* faulty variant: the declared type wins over the detected signature
DerivedFormat_declaredFirst(detected, contentType) ==
  IF contentType.present THEN Some(replace(contentType.value, image_, <<>>))
  ELSE detected

\* metadata.format
DerivedFormat(detected, contentType) ==
  IF Truthy(detected) THEN detected
  ELSE IF contentType.present THEN Some(replace(contentType.value, image_, <<>>))
  ELSE Undefined

\* fetchImage once the body is in hand: the signature check, the log record,
\* the result. Gives the outcome and the lines written to the console.
fetchImage_finish(url, rid, result, elapsed) ==
  LET checked == validateImageMagicNumbers(result.buffer, result.contentType)
      line == JSON_stringify(<<
                <<"requestId", Some(IF rid = "" THEN "unknown" ELSE rid)>>,
                <<"component", Some("OriginFetcher")>>,
                <<"operation", Some("image_fetched")>>,
                <<"originType", Some(IF isS3Url(url) THEN "s3" ELSE "http")>>,
                <<"url", Some(sanitizeUrl(url))>>,
                <<"contentType", result.contentType>>,
                <<"sizeBytes", Some(Len(result.buffer))>>,
                <<"fetchDurationMs", Some(elapsed)>> >>)
      detected == detectedFormat(result.buffer)
  IN IF checked.threw THEN [outcome |-> Rejected(checked.error), lines |-> <<>>]
     ELSE IF detected.threw
     THEN [outcome |-> Rejected(detected.error), lines |-> <<line>>]
     ELSE [outcome |-> Resolved(result.buffer, Len(result.buffer),
                                DerivedFormat(detected.value, result.contentType)),
           lines |-> <<line>>]

(* ------------------------- ConnectionManager --------------------------- *)
probeTimeout == 5000

\* faulty variant: the comparison folds case
validateContentType_foldsCase(contentType) ==
  LET first == toLowerCase(trim(splitFirst(contentType.value, ";")))
  IN IF /\ ~(contentType.present /\ startsWith(first, image_))
        /\ ~(contentType.present /\ startsWith(first, binaryOctetStream))
     THEN Threw(ConnectionError("Invalid content type",
                  <<"Origin does not serve image content. Content-Type: ">>
                  \o (IF contentType.present THEN contentType.value
                      ELSE <<"undefined">>),
                  400, "INVALID_FORMAT"))
     ELSE Returned(contentType)

validateContentType(contentType) ==
  LET first == trim(splitFirst(contentType.value, ";"))
  IN IF /\ ~(contentType.present /\ startsWith(first, image_))
        /\ ~(contentType.present /\ startsWith(first, binaryOctetStream))
     THEN Threw(ConnectionError("Invalid content type",
                  <<"Origin does not serve image content. Content-Type: ">>
                  \o (IF contentType.present THEN contentType.value
                      ELSE <<"undefined">>),
                  400, "INVALID_FORMAT"))
     ELSE Returned(contentType)

\* faulty variant: a ConnectionError raised in the try block is not rethrown
validateS3Origin_catch_wrapsTyped(error, url) ==
  IF error.message = <<"Invalid S3 URL format">>
  THEN ConnectionError("Invalid S3 URL format",
         <<"Invalid S3 URL format: ">> \o UrlText(url), 400, "INVALID_URL")
  ELSE IF error.metaStatus = 404
  THEN ConnectionError("Resource not found",
         <<"S3 object not found: ">> \o UrlText(url), 404, "RESOURCE_NOT_FOUND")
  ELSE IF error.metaStatus = 403
  THEN ConnectionError("Access denied",
         <<"Access denied to S3 resource: ">> \o UrlText(url), 403, "ACCESS_DENIED")
  ELSE ConnectionError("S3 validation failed",
         <<"S3 validation failed for ">> \o UrlText(url) \o <<": ">> \o error.message,
         502, "BAD_GATEWAY")

\* validateS3Origin's catch clause
validateS3Origin_catch(error, url) ==
  IF error.class = "ConnectionError" THEN error
  ELSE IF error.message = <<"Invalid S3 URL format">>
  THEN ConnectionError("Invalid S3 URL format",
         <<"Invalid S3 URL format: ">> \o UrlText(url), 400, "INVALID_URL")
  ELSE IF error.metaStatus = 404
  THEN ConnectionError("Resource not found",
         <<"S3 object not found: ">> \o UrlText(url), 404, "RESOURCE_NOT_FOUND")
  ELSE IF error.metaStatus = 403
  THEN ConnectionError("Access denied",
         <<"Access denied to S3 resource: ">> \o UrlText(url), 403, "ACCESS_DENIED")
  ELSE ConnectionError("S3 validation failed",
         <<"S3 validation failed for ">> \o UrlText(url) \o <<": ">> \o error.message,
         502, "BAD_GATEWAY")

\* validateHttpOrigin's catch clause, the rules on error.response.status;
\* NoError when none applies
validateHttpOrigin_onResponse(error, url) ==
  IF error.respStatus = 0 THEN NoError
  ELSE IF error.respStatus = 404
  THEN ConnectionError("Resource not found",
         <<"Resource not found at ">> \o UrlText(url), 404, "RESOURCE_NOT_FOUND")
  ELSE IF error.respStatus \in {403, 401}
  THEN ConnectionError("Access denied",
         <<"Access denied for ">> \o UrlText(url), error.respStatus, "ACCESS_DENIED")
  ELSE IF error.respStatus >= 500
  THEN ConnectionError("Origin server error",
         <<"Origin server error (", ToString(error.respStatus), ") for ">>
         \o UrlText(url), 502, "BAD_GATEWAY")
  ELSE NoError

\* validateHttpOrigin's catch clause, the rules on error.code; NoError when
\* none applies
validateHttpOrigin_onCode(error, url) ==
  IF error.code = "ECONNABORTED"
  THEN ConnectionError("Origin timeout",
         <<"Origin validation timeout after 5000ms for URL: ">> \o UrlText(url),
         408, "REQUEST_TIMEOUT")
  ELSE IF error.code = "ENOTFOUND"
  THEN ConnectionError("Unable to resolve host",
         <<"Unable to resolve host for ">> \o UrlText(url), 404, "HOST_NOT_FOUND")
  ELSE IF error.code \in {"CERT_UNTRUSTED", "UNABLE_TO_VERIFY_LEAF_SIGNATURE"}
  THEN ConnectionError("TLS certificate error",
         <<"TLS certificate validation failed for ">> \o UrlText(url) \o <<": ">>
         \o error.message, 403, "ACCESS_DENIED")
  ELSE NoError

\* validateHttpOrigin's catch clause, its last throw
validateHttpOrigin_fallback(error, url) ==
  ConnectionError("Origin validation failed",
    <<"Origin validation failed for ">> \o UrlText(url) \o <<": ">>
    \o error.message, 502, "BAD_GATEWAY")

\* faulty variant: a redirect answer is surfaced with its own status
validateHttpOrigin_catch_redirectAsIs(error, url) ==
  IF error.class = "ConnectionError" THEN error
  ELSE IF error.class = "AxiosError" /\ error.respStatus \in 300..399
  THEN ConnectionError("Redirect", <<"Redirect at ">> \o UrlText(url),
                       error.respStatus, "BAD_GATEWAY")
  ELSE IF error.class = "AxiosError"
          /\ validateHttpOrigin_onResponse(error, url) # NoError
  THEN validateHttpOrigin_onResponse(error, url)
  ELSE IF error.class = "AxiosError" /\ validateHttpOrigin_onCode(error, url) # NoError
  THEN validateHttpOrigin_onCode(error, url)
  ELSE validateHttpOrigin_fallback(error, url)

\* faulty variant: the rules on the response status are skipped
validateHttpOrigin_catch_codeOnly(error, url) ==
  IF error.class = "ConnectionError" THEN error
  ELSE IF error.class = "AxiosError" /\ validateHttpOrigin_onCode(error, url) # NoError
  THEN validateHttpOrigin_onCode(error, url)
  ELSE validateHttpOrigin_fallback(error, url)

\* validateHttpOrigin's catch clause
validateHttpOrigin_catch(error, url) ==
  IF error.class = "ConnectionError" THEN error
  ELSE IF error.class = "AxiosError"
          /\ validateHttpOrigin_onResponse(error, url) # NoError
  THEN validateHttpOrigin_onResponse(error, url)
  ELSE IF error.class = "AxiosError" /\ validateHttpOrigin_onCode(error, url) # NoError
  THEN validateHttpOrigin_onCode(error, url)
  ELSE validateHttpOrigin_fallback(error, url)

\* validateOriginUrl's catch clause around UrlValidator.validate
validateOriginUrl_catch(error) ==
  ConnectionError("URL validation failed", error.message, 400,
                  IF includes(error.message, <<"protocol">>)
                  THEN "UNSUPPORTED_PROTOCOL" ELSE "INVALID_URL")

\* what axios.head rejects with: a response outside 2xx (redirects are not
\* followed, so a 3xx answer is one of them), a network failure, or something
\* that is no AxiosError
AxiosResponseError(status) ==
  MkError("AxiosError", "AxiosError", 0, "",
          <<"Request failed with status code ", ToString(status)>>,
          CASE status \in 400..499 -> "ERR_BAD_REQUEST"
            [] status \in 500..599 -> "ERR_BAD_RESPONSE"
            [] OTHER -> "",
          status, 0)

AxiosNetworkError(code) ==
  MkError("AxiosError", "AxiosError", 0, "", <<code>>, code, 0, 0)

AxiosTimeout ==
  MkError("AxiosError", "AxiosError", 0, "", <<"timeout of 5000ms exceeded">>,
          "ECONNABORTED", 0, 0)

HeadErrorStatuses == {301, 302, 400, 401, 403, 404, 500, 503}

HeadErrors ==
  {AxiosResponseError(st) : st \in HeadErrorStatuses}
  \cup {AxiosNetworkError(c) :
          c \in {"ENOTFOUND", "CERT_UNTRUSTED", "UNABLE_TO_VERIFY_LEAF_SIGNATURE",
                 "ECONNREFUSED"}}
  \cup {MkError("TypeError", "TypeError", 0, "", <<"Invalid URL">>, "ERR_INVALID_URL", 0, 0)}

\* the statuses of a full HTTP fetch, after redirects were followed; 304
\* answers a forwarded If-None-Match and has no redirect to follow
GetStatuses == {200, 206, 304, 403, 404, 500}

(* ------------------------------- state --------------------------------- *)
\* milliseconds per clock tick
TickMs == 10000

VARIABLES
  op,          \* the operation called: "none", "fetchImage", "validateOriginUrl"
  pc,          \* where the call stands: "idle", an await point, "done"
  url,         \* the url argument
  requestId,   \* fetchImage's requestId argument, "" when not given
  now,         \* Date.now()
  startTime,   \* startTime / preflightStart
  timerArmed,  \* fetchFromHttp's setTimeout is pending
  response,    \* content type of the HTTP response whose body is being read
  net,         \* the requests issued to the network clients, in order
  outcome,     \* what the caller's promise settled with
  log,         \* the lines written to the console, in order
  request,     \* the caller's ImageProcessingRequest
  given,       \* the request as the caller passed it (history)
  result,      \* fetchImage's local result, once a fetchFrom* call returned
  origin       \* what the origin answered so far (history)

vars == <<op, pc, url, requestId, now, startTime, timerArmed, response, net,
          outcome, log, request, given, result, origin>>

NoUrl == Url("", "", "", "")

\* the fields of the caller's request the probe reads or writes: the
\* content-type slot, whether request.timings and its requestResolution
\* bucket exist, and preflightValidationMs, -1 while it is not set
Request(contentType, timings, requestResolution, ms) ==
  [sourceImageContentType |-> contentType,
   timings |-> timings,
   requestResolution |-> requestResolution,
   preflightValidationMs |-> ms]

NoRequest == Request(Undefined, FALSE, FALSE, -1)

\* the requests a caller passes: fresh ones, and ones that still carry the
\* content type and the timing of an earlier probe
Requests ==
  { Request(ct, t[1], t[2], t[3]) :
      ct \in {Undefined, Some(image_ \o png)},
      t \in { <<FALSE, FALSE, -1>>, <<TRUE, FALSE, -1>>, <<TRUE, TRUE, -1>>,
              <<TRUE, TRUE, 7>> } }

NoResult == [set |-> FALSE, buffer |-> <<>>, contentType |-> Undefined]

\* status: the response status, 0 when there is none; error: what the client
\* rejected with
NoAnswer == [answered |-> FALSE, status |-> 0, contentType |-> Undefined,
             body |-> Undefined, error |-> NoError]
Answer(status, contentType, body) ==
  [answered |-> TRUE, status |-> status, contentType |-> contentType,
   body |-> body, error |-> NoError]
Failure(error) ==
  [answered |-> TRUE, status |-> error.respStatus, contentType |-> Undefined,
   body |-> Undefined, error |-> error]

Init ==
  /\ op = "none"
  /\ pc = "idle"
  /\ url = NoUrl
  /\ requestId = ""
  /\ now = 0
  /\ startTime = 0
  /\ timerArmed = FALSE
  /\ response = Undefined
  /\ net = <<>>
  /\ outcome = Pending
  /\ log = <<>>
  /\ request = NoRequest
  /\ given = NoRequest
  /\ result = NoResult
  /\ origin = NoAnswer

NetRequest(client, method, redirects, u) ==
  [client |-> client, method |-> method, redirects |-> redirects, url |-> u]

TimerDue == timerArmed /\ now - startTime >= httpTimeout
ProbeDue == pc = "http_head" /\ now - startTime >= probeTimeout

Elapsed == now - startTime

(* ----------------------------- fetchImage ------------------------------ *)
\* faulty variant: the scheme test comes before the object-store test
fetchImage_route_schemeFirst(u) ==
  IF u.scheme \in {"http://", "https://"} THEN "http"
  ELSE IF isS3Url(u) THEN "s3"
  ELSE "unsupported"

\* the branch fetchImage takes
fetchImage_route(u) ==
  IF isS3Url(u) THEN "s3"
  ELSE IF u.scheme \in {"http://", "https://"} THEN "http"
  ELSE "unsupported"

\* the call up to its first await
FetchImage(u, rid) ==
  /\ pc = "idle"
  /\ op' = "fetchImage"
  /\ url' = u
  /\ requestId' = rid
  /\ startTime' = now
  /\ UNCHANGED <<now, response, request, given, result, origin>>
  /\ IF fetchImage_route(u) = "s3"
     THEN IF parseS3Url(u).threw
          THEN /\ outcome' = Rejected(fetchFromS3_catch(parseS3Url(u).error, u))
               /\ pc' = "done"
               /\ UNCHANGED <<net, timerArmed, log>>
          ELSE /\ log' = Append(log, fetchFromS3_attempt(u))
               /\ net' = Append(net, NetRequest("s3", "GetObject", "region", u))
               /\ pc' = "s3_get"
               /\ UNCHANGED <<outcome, timerArmed>>
     ELSE IF fetchImage_route(u) = "http"
     THEN IF UrlValidator_validate(u).threw
          THEN /\ outcome' = Rejected(ImageProcessingError(400, "InvalidUrl",
                                        UrlValidator_validate(u).error.message))
               /\ pc' = "done"
               /\ UNCHANGED <<net, timerArmed, log>>
          ELSE /\ timerArmed' = TRUE
               /\ net' = Append(net, NetRequest("fetch", "GET", "follow", u))
               /\ pc' = "http_get"
               /\ UNCHANGED <<outcome, log>>
     ELSE /\ outcome' = Rejected(ImageProcessingError(400, "InvalidUrl",
                                   <<"Unsupported URL protocol">>))
          /\ pc' = "done"
          /\ UNCHANGED <<net, timerArmed, log>>

\* settle fetchImage with what a fetchFrom* step produced
Settle(step) ==
  IF step.threw
  THEN /\ outcome' = Rejected(step.error)
       /\ UNCHANGED <<log, result>>
  ELSE LET fin == fetchImage_finish(url, requestId, step.value, Elapsed)
       IN /\ outcome' = fin.outcome
          /\ log' = log \o fin.lines
          /\ result' = [set |-> TRUE, buffer |-> step.value.buffer,
                        contentType |-> step.value.contentType]

S3GetResolves(body, contentType) ==
  /\ pc = "s3_get"
  /\ Settle(fetchFromS3_response(body, contentType, url))
  /\ origin' = Answer(200, contentType, body)
  /\ pc' = "done"
  /\ UNCHANGED <<op, url, requestId, now, startTime, timerArmed, response, net, request, given>>

S3GetRejects(error) ==
  /\ pc = "s3_get"
  /\ outcome' = Rejected(fetchFromS3_catch(error, url))
  /\ origin' = Failure(error)
  /\ pc' = "done"
  /\ UNCHANGED <<op, url, requestId, now, startTime, timerArmed, response, net,
                 log, request, given, result>>

\* fetch() resolved: the response headers are in, the timer is cleared
HttpGetResponds(status, contentType) ==
  /\ pc = "http_get"
  /\ ~TimerDue
  /\ timerArmed' = FALSE
  /\ LET h == fetchFromHttp_headers(status, contentType, url)
     IN IF h.threw
        THEN /\ outcome' = Rejected(h.error)
             /\ pc' = "done"
             /\ UNCHANGED response
        ELSE /\ response' = contentType
             /\ pc' = "http_body"
             /\ UNCHANGED outcome
  /\ origin' = Answer(status, contentType, Undefined)
  /\ UNCHANGED <<op, url, requestId, now, startTime, net, log, request, given, result>>

\* fetch() rejected for a reason other than the abort; the timer stays pending
HttpGetRejects(error) ==
  /\ pc = "http_get"
  /\ ~TimerDue
  /\ outcome' = Rejected(fetchFromHttp_catch(error, url))
  /\ origin' = [origin EXCEPT !.answered = TRUE, !.error = error]
  /\ pc' = "done"
  /\ UNCHANGED <<op, url, requestId, now, startTime, timerArmed, response, net,
                 log, request, given, result>>

\* the setTimeout callback: controller.abort(), which rejects a fetch() still
\* awaited with an AbortError
TimerFires ==
  /\ TimerDue
  /\ timerArmed' = FALSE
  /\ IF pc = "http_get"
     THEN /\ outcome' = Rejected(fetchFromHttp_catch(AbortError, url))
          /\ origin' = Failure(AbortError)
          /\ pc' = "done"
     ELSE UNCHANGED <<outcome, origin, pc>>
  /\ UNCHANGED <<op, url, requestId, now, startTime, response, net, log, request, given,
                 result>>

\* response.arrayBuffer() resolved
HttpBodyDrained(buffer) ==
  /\ pc = "http_body"
  /\ Settle(fetchFromHttp_body(buffer, response, url))
  /\ origin' = [origin EXCEPT !.body = Some(buffer)]
  /\ pc' = "done"
  /\ UNCHANGED <<op, url, requestId, now, startTime, timerArmed, response, net, request, given>>

\* response.arrayBuffer() rejected
HttpBodyRejects(error) ==
  /\ pc = "http_body"
  /\ outcome' = Rejected(fetchFromHttp_catch(error, url))
  /\ origin' = [origin EXCEPT !.answered = TRUE, !.error = error]
  /\ pc' = "done"
  /\ UNCHANGED <<op, url, requestId, now, startTime, timerArmed, response, net,
                 log, request, given, result>>

(* -------------------------- validateOriginUrl -------------------------- *)
\* the call up to its first await: the validator, the dispatch of
\* validateOriginHeaders, the request sent
ValidateOriginUrl(u, imageRequest) ==
  /\ pc = "idle"
  /\ op' = "validateOriginUrl"
  /\ url' = u
  /\ request' = imageRequest
  /\ given' = imageRequest
  /\ startTime' = now
  /\ UNCHANGED <<requestId, now, timerArmed, response, log, result, origin>>
  /\ IF UrlValidator_validate(u).threw
     THEN /\ outcome' = Rejected(validateOriginUrl_catch(UrlValidator_validate(u).error))
          /\ pc' = "done"
          /\ UNCHANGED net
     ELSE IF isS3Url(u)
     THEN IF parseS3Url(u).threw
          THEN /\ outcome' = Rejected(validateS3Origin_catch(parseS3Url(u).error, u))
               /\ pc' = "done"
               /\ UNCHANGED net
          ELSE /\ net' = Append(net, NetRequest("s3", "HeadObject", "none", u))
               /\ pc' = "s3_head"
               /\ UNCHANGED outcome
     ELSE /\ net' = Append(net, NetRequest("axios", "HEAD", "0", u))
          /\ pc' = "http_head"
          /\ UNCHANGED outcome

\* faulty variant: the content-type slot is written before the acceptance check
ProbeAnswered_writesFirst(contentType, objectStore) ==
  LET checked == validateContentType(contentType)
  IN IF checked.threw
     THEN /\ outcome' = Rejected(IF objectStore
                                  THEN validateS3Origin_catch(checked.error, url)
                                  ELSE validateHttpOrigin_catch(checked.error, url))
          /\ request' = [request EXCEPT !.sourceImageContentType = contentType]
     ELSE /\ outcome' = Resolved(<<>>, 0, Undefined)
          /\ request' = [request EXCEPT
               !.sourceImageContentType = contentType,
               !.preflightValidationMs =
                  IF request.timings /\ request.requestResolution
                  THEN Elapsed ELSE @]

\* the probe answered with a content type: the acceptance check, the write to
\* the request, the timing
ProbeAnswered(contentType, objectStore) ==
  LET checked == validateContentType(contentType)
  IN IF checked.threw
     THEN /\ outcome' = Rejected(IF objectStore
                                  THEN validateS3Origin_catch(checked.error, url)
                                  ELSE validateHttpOrigin_catch(checked.error, url))
          /\ UNCHANGED request
     ELSE /\ outcome' = Resolved(<<>>, 0, Undefined)
          /\ request' = [request EXCEPT
               !.sourceImageContentType = contentType,
               !.preflightValidationMs =
                  IF request.timings /\ request.requestResolution
                  THEN Elapsed ELSE @]

S3HeadResolves(contentType) ==
  /\ pc = "s3_head"
  /\ ProbeAnswered(contentType, TRUE)
  /\ origin' = Answer(200, contentType, Undefined)
  /\ pc' = "done"
  /\ UNCHANGED <<op, url, requestId, now, startTime, timerArmed, response, net, log,
                 given, result>>

S3HeadRejects(error) ==
  /\ pc = "s3_head"
  /\ outcome' = Rejected(validateS3Origin_catch(error, url))
  /\ origin' = Failure(error)
  /\ pc' = "done"
  /\ UNCHANGED <<op, url, requestId, now, startTime, timerArmed, response, net,
                 log, request, given, result>>

\* axios.head resolved: a 2xx answer within the timeout
HttpHeadResolves(contentType) ==
  /\ pc = "http_head"
  /\ ~ProbeDue
  /\ ProbeAnswered(contentType, FALSE)
  /\ origin' = Answer(200, contentType, Undefined)
  /\ pc' = "done"
  /\ UNCHANGED <<op, url, requestId, now, startTime, timerArmed, response, net, log,
                 given, result>>

\* axios.head rejected within the timeout
HttpHeadRejects(error) ==
  /\ pc = "http_head"
  /\ ~ProbeDue
  /\ outcome' = Rejected(validateHttpOrigin_catch(error, url))
  /\ origin' = Failure(error)
  /\ pc' = "done"
  /\ UNCHANGED <<op, url, requestId, now, startTime, timerArmed, response, net,
                 log, request, given, result>>

\* axios gave up after its timeout
HttpHeadTimesOut ==
  /\ ProbeDue
  /\ outcome' = Rejected(validateHttpOrigin_catch(AxiosTimeout, url))
  /\ origin' = Failure(AxiosTimeout)
  /\ pc' = "done"
  /\ UNCHANGED <<op, url, requestId, now, startTime, timerArmed, response, net,
                 log, request, given, result>>

(* ------------------------------- clock --------------------------------- *)
InFlight == pc \in {"s3_get", "http_get", "http_body", "s3_head", "http_head"}

\* time passes while a request is in flight or a timer is pending; a timer
\* that is due runs before the clock moves on
Tick ==
  /\ InFlight \/ timerArmed
  /\ ~TimerDue
  /\ ~ProbeDue
  /\ now < MaxTicks * TickMs
  /\ now' = now + TickMs
  /\ UNCHANGED <<op, pc, url, requestId, startTime, timerArmed, response, net,
                 outcome, log, request, given, result, origin>>

RequestIds == {"", "req-1"}
S3Bodies == {Undefined} \cup {Some(b) : b \in Bodies}

Next ==
  \/ \E u \in Urls, rid \in RequestIds : FetchImage(u, rid)
  \/ \E b \in S3Bodies, ct \in ContentTypes : S3GetResolves(b, ct)
  \/ \E e \in S3Errors : S3GetRejects(e)
  \/ \E st \in GetStatuses, ct \in ContentTypes : HttpGetResponds(st, ct)
  \/ \E e \in FetchErrors : HttpGetRejects(e)
  \/ TimerFires
  \/ \E b \in Bodies : HttpBodyDrained(b)
  \/ \E e \in FetchErrors : HttpBodyRejects(e)
  \/ \E u \in Urls, r \in Requests : ValidateOriginUrl(u, r)
  \/ \E ct \in ContentTypes : S3HeadResolves(ct)
  \/ \E e \in S3Errors : S3HeadRejects(e)
  \/ \E ct \in ContentTypes : HttpHeadResolves(ct)
  \/ \E e \in HeadErrors : HttpHeadRejects(e)
  \/ HttpHeadTimesOut
  \/ Tick

Spec == Init /\ [][Next]_vars

(* ===================== the claims, stated independently ================ *)
\* The signature registry as the specification gives it: byte prefixes, in
\* order, first match wins.
ClaimRegistry ==
  << << <<255, 216, 255>>, jpeg >>,
     << <<137, 80, 78, 71>>, png >>,
     << <<71, 73, 70, 56>>, gif >>,
     << <<82, 73, 70, 70>>, webp >>,
     << <<73, 73, 42, 0>>, tiff >>,
     << <<77, 77, 0, 42>>, tiff >> >>

ClaimSignature(body) ==
  LET hits == {i \in 1..Len(ClaimRegistry) : startsWith(body, ClaimRegistry[i][1])}
  IN IF hits = {} THEN Undefined ELSE Some(ClaimRegistry[SetMin(hits)][2])

\* The content-type table of the cross-validation as the specification gives it.
ClaimExpectedFormat(contentType) ==
  CASE contentType = image_ \o webp -> Some(webp)
    [] contentType = image_ \o png -> Some(png)
    [] contentType = image_ \o jpeg -> Some(jpeg)
    [] contentType = image_ \o <<"j","p","g">> -> Some(jpeg)
    [] contentType = image_ \o tiff -> Some(tiff)
    [] contentType = image_ \o gif -> Some(gif)
    [] OTHER -> Undefined

ClaimTooSmall ==
  ImageProcessingError(415, "InvalidImage", <<"File too small to be a valid image">>)

\* s with its first "image/" taken out
ClaimStrip(s) ==
  LET cuts == {i \in 0..(Len(s) - 6) : SubSeq(s, i + 1, i + 6) = image_}
  IN IF cuts = {} THEN s
     ELSE [j \in 1..(Len(s) - 6) |-> IF j <= SetMin(cuts) THEN s[j] ELSE s[j + 6]]

FetchDone == op = "fetchImage" /\ pc = "done"
ProbeDone == op = "validateOriginUrl" /\ pc = "done"

\* C1: fetchImage sends an object-store URL (legacy, regional, dash-region,
\* path-style) to the object-store GET and nowhere else; any other http:// or
\* https:// URL goes through the validator and reaches the HTTP GET only when
\* the validator passes, failing with 400 InvalidUrl and the validator's
\* message otherwise ("HTTP protocol not allowed" for http://); every other
\* URL fails with 400 InvalidUrl "Unsupported URL protocol". A URL rejected by
\* the dispatch issues no network request.
C1_DispatchOrder ==
  op = "fetchImage" =>
    IF isS3Url(url)
    THEN /\ \A i \in 1..Len(net) : net[i] = NetRequest("s3", "GetObject", "region", url)
         /\ ~parseS3Url(url).threw => Len(net) = 1
    ELSE IF url.scheme \in {"http://", "https://"}
    THEN IF UrlValidator_validate(url).threw
         THEN /\ net = <<>>
              /\ outcome = Rejected(ImageProcessingError(400, "InvalidUrl",
                                      UrlValidator_validate(url).error.message))
              /\ url.scheme = "http://" =>
                   outcome.error.message = <<"HTTP ", "protocol", " not allowed">>
         ELSE net = <<NetRequest("fetch", "GET", "follow", url)>>
    ELSE /\ net = <<>>
         /\ outcome = Rejected(ImageProcessingError(400, "InvalidUrl",
                                 <<"Unsupported URL protocol">>))

C1_Witness ==
  /\ FetchDone
  /\ S3Shape(url) = "dash-region"
  /\ net = <<NetRequest("s3", "GetObject", "region", url)>>
  /\ outcome.state = "resolved"

\* C2: for a body of at least 4 bytes, validateImageMagicNumbers fails (415
\* InvalidImage, "Invalid or corrupted <expectedFormat> file") if and only if
\* the declared content type, lower-cased, is a key of the content-type table
\* and no registry signature matches the first 4 bytes; it accepts otherwise.
C2_FailsIffTableKeyWithoutSignature ==
  (FetchDone /\ result.set /\ Len(result.buffer) >= 4) =>
    LET expected ==
          IF result.contentType.present
          THEN ClaimExpectedFormat(toLowerCase(result.contentType.value))
          ELSE Undefined
    IN IF expected.present /\ ~ClaimSignature(result.buffer).present
       THEN outcome = Rejected(ImageProcessingError(415, "InvalidImage",
              <<"Invalid or corrupted ">> \o expected.value \o <<" file">>))
       ELSE outcome.state = "resolved"

\* C3: a body shorter than 4 bytes always fails with 415 InvalidImage "File
\* too small to be a valid image": in signature detection, in
\* validateImageMagicNumbers with any declared content type, and in
\* fetchImage on either origin kind once such a body was obtained.
C3_TooSmall ==
  (op = "fetchImage" /\ origin.body.present /\ Len(origin.body.value) < 4) =>
    /\ outcome = Rejected(ClaimTooSmall)
    /\ detectedFormat(origin.body.value) = Threw(ClaimTooSmall)
    /\ \A ct \in ContentTypes :
         validateImageMagicNumbers(origin.body.value, ct) = Threw(ClaimTooSmall)

C3_Witness ==
  /\ FetchDone
  /\ fetchImage_route(url) = "http"
  /\ origin.body.present
  /\ Len(origin.body.value) = 3
  /\ origin.contentType = Some(image_ \o png)
  /\ outcome = Rejected(ClaimTooSmall)

\* C4: a successful fetchImage returns the body it obtained, size equal to its
\* byte length, and format equal to the format of the first registry entry
\* whose prefix matches; with no match format is the declared content type
\* with "image/" taken out, absent when none was declared (an empty declared
\* type gives an empty or absent format). [FF D8 FF E0] declared image/jpeg
\* gives size 4, format jpeg.
C4_Metadata ==
  (op = "fetchImage" /\ outcome.state = "resolved") =>
    /\ origin.body.present
    /\ outcome.buffer = origin.body.value
    /\ outcome.size = Len(origin.body.value)
    /\ LET sig == ClaimSignature(origin.body.value)
           declared == origin.contentType
       IN IF sig.present THEN outcome.format = sig
          ELSE IF ~declared.present THEN outcome.format = Undefined
          ELSE IF declared.value = <<>> THEN outcome.format \in {Undefined, Some(<<>>)}
          ELSE outcome.format = Some(ClaimStrip(declared.value))
    /\ (origin.body.value = <<255, 216, 255, 224>>
        /\ origin.contentType = Some(image_ \o jpeg))
       => (outcome.size = 4 /\ outcome.format = Some(jpeg))

C4_Witness ==
  /\ FetchDone
  /\ outcome.state = "resolved"
  /\ origin.body = Some(<<255, 216, 255, 224>>)
  /\ origin.contentType = Some(image_ \o jpeg)
  /\ outcome.size = 4
  /\ outcome.format = Some(jpeg)

\* the probe received a 2xx answer (and so ran the content-type check)
ProbeChecked == ProbeDone /\ origin.answered /\ origin.error = NoError

\* the declared content type without its parameters, trimmed
ClaimMediaType(contentType) == trim(splitFirst(contentType.value, ";"))

ClaimInvalidFormat ==
  /\ outcome.state = "rejected"
  /\ outcome.error.class = "ConnectionError"
  /\ outcome.error.statusCode = 400
  /\ outcome.error.code = "INVALID_FORMAT"

\* C5 as stated: the probe accepts a declared content type if and only if,
\* parameters removed and trimmed, it begins with "image/" or equals
\* "binary/octet-stream", case-sensitively; everything else, an absent type
\* included, is rejected with 400 INVALID_FORMAT.
C5_AcceptsImageOrExactlyOctetStream ==
  ProbeChecked =>
    IF /\ origin.contentType.present
       /\ \/ startsWith(ClaimMediaType(origin.contentType), image_)
          \/ ClaimMediaType(origin.contentType) = binaryOctetStream
    THEN outcome.state = "resolved"
    ELSE ClaimInvalidFormat

\* C5 amended: the probe accepts a declared content type if and only if,
\* parameters removed and trimmed, it begins with "image/" or begins with
\* "binary/octet-stream", case-sensitively ("image/jpeg" accepted,
\* "IMAGE/JPEG" rejected); everything else, an absent type included, is
\* rejected with 400 INVALID_FORMAT.
C5_AcceptsImageOrOctetStreamPrefix ==
  ProbeChecked =>
    IF /\ origin.contentType.present
       /\ \/ startsWith(ClaimMediaType(origin.contentType), image_)
          \/ startsWith(ClaimMediaType(origin.contentType), binaryOctetStream)
    THEN outcome.state = "resolved"
    ELSE ClaimInvalidFormat

C5_Witness ==
  /\ ProbeChecked
  /\ origin.contentType = Some(<<"I","M","A","G","E","/","J","P","E","G">>)
  /\ ClaimInvalidFormat

\* the probe went to an HTTP(S) origin: the validator passed and the URL is
\* no object-store URL
HttpProbe ==
  /\ op = "validateOriginUrl"
  /\ ~UrlValidator_validate(url).threw
  /\ ~isS3Url(url)

\* C6 as stated: the probe of an HTTP(S) origin issues exactly one HEAD
\* request, follows no redirect, and a redirect (3xx) answer reaches the
\* caller as an error carrying that 3xx status.
C6_RedirectStatusAsIs ==
  HttpProbe =>
    /\ net = <<NetRequest("axios", "HEAD", "0", url)>>
    /\ (pc = "done" /\ origin.status \in 300..399) =>
         (outcome.state = "rejected" /\ outcome.error.statusCode = origin.status)

\* C6 amended: the probe of an HTTP(S) origin issues exactly one HEAD
\* request and follows no redirect; a redirect (3xx) answer reaches the
\* caller as 502 BAD_GATEWAY, the 3xx status itself is not carried.
C6_RedirectIsBadGateway ==
  HttpProbe =>
    /\ net = <<NetRequest("axios", "HEAD", "0", url)>>
    /\ (pc = "done" /\ origin.status \in 300..399) =>
         /\ outcome.state = "rejected"
         /\ outcome.error.class = "ConnectionError"
         /\ outcome.error.statusCode = 502
         /\ outcome.error.code = "BAD_GATEWAY"

C6_Witness ==
  /\ HttpProbe
  /\ pc = "done"
  /\ origin.status = 302
  /\ Len(net) = 1
  /\ outcome.error.statusCode = 502

HttpFetch == op = "fetchImage" /\ fetchImage_route(url) = "http"

\* C7: the HTTP fetch puts a hard 30000 ms deadline on the whole retrieval,
\* headers and drained body: no HTTP fetch is in flight, and none returns a
\* result, after its deadline has expired; the call cancelled by the deadline
\* fails with 504 RequestTimeout.
C7_HardDeadline ==
  HttpFetch =>
    /\ pc \in {"http_get", "http_body"} => Elapsed <= httpTimeout
    /\ (pc = "done" /\ outcome.state = "resolved") => Elapsed <= httpTimeout
    /\ (pc = "done" /\ origin.error = AbortError) =>
         outcome = Rejected(ImageProcessingError(504, "RequestTimeout",
                              <<"Origin Request timeout">>))

ClaimImageTypes ==
  { image_ \o jpeg, image_ \o <<"j","p","g">>, image_ \o png, image_ \o webp,
    image_ \o gif, image_ \o tiff, image_ \o <<"a","v","i","f">>,
    image_ \o <<"h","e","i","f">> }

\* a declared type names a known image type (case folded; it may carry
\* parameters), is binary/octet-stream (case folded, trimmed)
ClaimKnownImageType(ct) == \E t \in ClaimImageTypes : includes(toLowerCase(ct), t)
ClaimOctetStream(ct) == trim(toLowerCase(ct)) = binaryOctetStream

\* C8: for a 2xx response the HTTP fetch rejects with 415 InvalidContentType
\* if and only if a content type is declared, is not binary/octet-stream and
\* is not a known image type, and it does so before the body is read; it
\* rejects with 415 InvalidImage when the type is binary/octet-stream and no
\* signature is detected; in every other case with a body of at least 4
\* bytes, a response declaring no content type included, it returns the body
\* with the optional declared content type.
C8_HttpContentTypePolicy ==
  (HttpFetch /\ origin.answered /\ origin.status \in 200..299) =>
    LET ct == origin.contentType
        unknown == /\ Truthy(ct)
                   /\ ~ClaimOctetStream(ct.value)
                   /\ ~ClaimKnownImageType(ct.value)
    IN IF unknown
       THEN /\ pc = "done"
            /\ ~origin.body.present
            /\ outcome.state = "rejected"
            /\ outcome.error.statusCode = 415
            /\ outcome.error.errorType = "InvalidContentType"
       ELSE (origin.body.present /\ Len(origin.body.value) >= 4) =>
              IF Truthy(ct) /\ ClaimOctetStream(ct.value)
                 /\ ~ClaimSignature(origin.body.value).present
              THEN /\ outcome.state = "rejected"
                   /\ outcome.error.statusCode = 415
                   /\ outcome.error.errorType = "InvalidImage"
              ELSE /\ result.set
                   /\ result.buffer = origin.body.value
                   /\ result.contentType = IF Truthy(ct) THEN ct ELSE Undefined

\* the errors of the origin that no mapping of the fetch path recognises
ClaimUnmappedOnFetch ==
  /\ origin.error # NoError
  /\ origin.error.name # "AbortError"
  /\ ~S3ErrorHandler_mapError(origin.error).mapped

\* the errors of the origin that no mapping of the probe recognises
ClaimUnmappedOnProbe ==
  /\ origin.error # NoError
  /\ IF isS3Url(url)
     THEN origin.error.metaStatus \notin {404, 403}
     ELSE \/ origin.error.class # "AxiosError"
          \/ /\ origin.error.respStatus \notin {404, 403, 401}
             /\ origin.error.respStatus < 500
             /\ origin.error.code \notin {"ECONNABORTED", "ENOTFOUND", "CERT_UNTRUSTED",
                                          "UNABLE_TO_VERIFY_LEAF_SIGNATURE"}

ClaimOneTypedError ==
  /\ Len(net) <= 1
  /\ (pc = "done") = (outcome.state # "pending")
  /\ (op = "fetchImage" /\ outcome.state = "rejected") =>
       outcome.error.class = "ImageProcessingError"
  /\ (op = "validateOriginUrl" /\ outcome.state = "rejected") =>
       outcome.error.class = "ConnectionError"
  \* a typed error raised inside a try block arrives as raised
  /\ (FetchDone /\ HttpFetch /\ origin.error = NoError /\ origin.answered
      /\ origin.status \notin 200..299) =>
       /\ outcome.error.statusCode = origin.status
       /\ outcome.error.errorType = "HttpFetchError"
  /\ (FetchDone /\ origin.answered /\ origin.error = NoError /\ ~HttpFetch
      /\ ~origin.body.present) =>
       outcome = Rejected(ImageProcessingError(404, "ImageNotFound",
                            <<"Image not found in S3">>))
  /\ (ProbeChecked /\ outcome.state = "rejected") => ClaimInvalidFormat
  \* an unrecognised error is downgraded, its message embedded
  /\ (FetchDone /\ ClaimUnmappedOnFetch) =>
       /\ outcome.error.statusCode = 500
       /\ outcome.error.errorType = "FetchError"
       /\ includes(outcome.error.message, origin.error.message)
  /\ (ProbeDone /\ ClaimUnmappedOnProbe) =>
       /\ outcome.error.statusCode = 502
       /\ outcome.error.code = "BAD_GATEWAY"
       /\ includes(outcome.error.message, origin.error.message)

\* C9: every failure reaches the caller exactly once as one typed error and
\* nothing is retried: a rejecting fetchImage rejects with an
\* ImageProcessingError, a rejecting validateOriginUrl with a ConnectionError,
\* each call issues at most one network request, a typed error raised on the
\* way is passed through unchanged, an error no mapping recognises becomes 500
\* FetchError (fetch) or 502 BAD_GATEWAY (probe) with its message embedded,
\* and a settled call is never settled again.
C9_OneTypedErrorOnce ==
  [][ /\ ClaimOneTypedError'
      /\ outcome.state # "pending" => outcome' = outcome ]_vars

C9_Witness ==
  /\ FetchDone
  /\ HttpFetch
  /\ origin.error \in FetchErrors
  /\ outcome.error.class = "ImageProcessingError"
  /\ outcome.error.errorType = "FetchError"
  /\ Len(net) = 1

\* the mapping of a failed HEAD probe as the specification orders it
ClaimHeadMapping(e) ==
  IF e.respStatus = 404 THEN <<404, "RESOURCE_NOT_FOUND">>
  ELSE IF e.respStatus \in {403, 401} THEN <<e.respStatus, "ACCESS_DENIED">>
  ELSE IF e.respStatus >= 500 THEN <<502, "BAD_GATEWAY">>
  ELSE IF e.code = "ECONNABORTED" THEN <<408, "REQUEST_TIMEOUT">>
  ELSE IF e.code = "ENOTFOUND" THEN <<404, "HOST_NOT_FOUND">>
  ELSE IF e.code \in {"CERT_UNTRUSTED", "UNABLE_TO_VERIFY_LEAF_SIGNATURE"}
  THEN <<403, "ACCESS_DENIED">>
  ELSE <<502, "BAD_GATEWAY">>

\* C10: a failed HTTP HEAD probe is mapped by the first rule that matches:
\* response status 404 -> 404 RESOURCE_NOT_FOUND; 403 or 401 -> the same
\* status, ACCESS_DENIED; >= 500 -> 502 BAD_GATEWAY; then deadline exceeded
\* (5000 ms) -> 408 REQUEST_TIMEOUT; host not resolved -> 404 HOST_NOT_FOUND;
\* certificate not trusted -> 403 ACCESS_DENIED; anything else, any other
\* response status included -> 502 BAD_GATEWAY. An INVALID_FORMAT error of the
\* content-type check is rethrown as it is.
C10_HeadFailureMapping ==
  (HttpProbe /\ pc = "done") =>
    IF origin.error # NoError
    THEN /\ outcome.state = "rejected"
         /\ outcome.error.class = "ConnectionError"
         /\ <<outcome.error.statusCode, outcome.error.code>>
              = ClaimHeadMapping(origin.error)
         /\ outcome.error.code = "REQUEST_TIMEOUT" => Elapsed >= probeTimeout
    ELSE outcome.state = "rejected" =>
           outcome = Rejected(validateContentType(origin.contentType).error)

C10_Witness ==
  /\ HttpProbe
  /\ pc = "done"
  /\ origin.error.respStatus = 401
  /\ outcome.error.statusCode = 401
  /\ outcome.error.code = "ACCESS_DENIED"

\* the probe went to an object-store origin: the validator passed and the URL
\* is an object-store URL
S3Probe ==
  /\ op = "validateOriginUrl"
  /\ ~UrlValidator_validate(url).threw
  /\ isS3Url(url)

\* the mapping of a failed object-store probe as the specification orders it
ClaimS3HeadMapping(e) ==
  IF e.metaStatus = 404 THEN <<404, "RESOURCE_NOT_FOUND">>
  ELSE IF e.metaStatus = 403 THEN <<403, "ACCESS_DENIED">>
  ELSE <<502, "BAD_GATEWAY">>

\* C11: a failed object-store probe is mapped by the first rule that matches:
\* a ConnectionError already raised (INVALID_FORMAT of the content-type check)
\* is rethrown as it is; a URL that does not parse fails with 400 INVALID_URL
\* and no probe request is issued; probe status 404 -> 404 RESOURCE_NOT_FOUND;
\* probe status 403 -> 403 ACCESS_DENIED; anything else -> 502 BAD_GATEWAY. A
\* probe of a missing key (the client's NotFound, status 404) surfaces as 404
\* RESOURCE_NOT_FOUND.
C11_S3HeadFailureMapping ==
  (S3Probe /\ pc = "done") =>
    IF parseS3Url(url).threw
    THEN /\ net = <<>>
         /\ outcome.state = "rejected"
         /\ outcome.error.class = "ConnectionError"
         /\ <<outcome.error.statusCode, outcome.error.code>> = <<400, "INVALID_URL">>
    ELSE /\ net = <<NetRequest("s3", "HeadObject", "none", url)>>
         /\ IF origin.error # NoError
            THEN /\ outcome.state = "rejected"
                 /\ outcome.error.class = "ConnectionError"
                 /\ <<outcome.error.statusCode, outcome.error.code>>
                      = ClaimS3HeadMapping(origin.error)
                 /\ origin.error.name = "NotFound" =>
                      <<outcome.error.statusCode, outcome.error.code>>
                        = <<404, "RESOURCE_NOT_FOUND">>
            ELSE outcome.state = "rejected" =>
                   /\ ClaimInvalidFormat
                   /\ outcome = Rejected(validateContentType(origin.contentType).error)

C11_Witness ==
  /\ S3Probe
  /\ pc = "done"
  /\ origin.error.name = "NotFound"
  /\ origin.error.metaStatus = 404
  /\ outcome.error.statusCode = 404
  /\ outcome.error.code = "RESOURCE_NOT_FOUND"

\* the fetch went to the object store and the GET was sent
S3Fetch ==
  /\ op = "fetchImage"
  /\ fetchImage_route(url) = "s3"
  /\ ~parseS3Url(url).threw

ClaimImageNotFound ==
  /\ outcome.state = "rejected"
  /\ outcome.error.class = "ImageProcessingError"
  /\ outcome.error.statusCode = 404
  /\ outcome.error.errorType = "ImageNotFound"

\* what the fetch path makes of a rejection of the object-store client
ClaimS3FetchFailure ==
  LET t == S3ErrorHandler_mapError(origin.error)
  IN /\ outcome.state = "rejected"
     /\ outcome.error.class = "ImageProcessingError"
     /\ ~result.set
     /\ IF t.mapped
        THEN /\ outcome.error.statusCode = t.statusCode
             /\ outcome.error.message = t.message
             /\ outcome.error.errorType =
                  IF t.errorType = "KeyNotFound" THEN "ImageNotFound" ELSE t.errorType
        ELSE /\ outcome.error.statusCode = 500
             /\ outcome.error.errorType = "FetchError"
             /\ includes(outcome.error.message, origin.error.message)

\* fetchFromS3 returned the body as delivered with the declared content type
ClaimS3FetchReturned ==
  /\ result.set
  /\ result.buffer = origin.body.value
  /\ result.contentType = origin.contentType

\* C12 as stated: on the object-store fetch a response with an empty body (no
\* body, or a body of no bytes) fails with 404 ImageNotFound; an error the
\* translator recognises comes back with the translator's status, message and
\* kind, "KeyNotFound" renamed "ImageNotFound"; an error it does not recognise
\* is wrapped as 500 FetchError with the underlying message; a successful
\* response returns the body with the declared content type.
C12_EmptyBodyIsNotFound ==
  (S3Fetch /\ pc = "done") =>
    IF origin.error # NoError THEN ClaimS3FetchFailure
    ELSE IF ~origin.body.present \/ origin.body.value = <<>>
    THEN ClaimImageNotFound /\ ~result.set
    ELSE ClaimS3FetchReturned

\* C12 amended: on the object-store fetch a response that carries no body
\* fails with 404 ImageNotFound, while a body that is present is returned
\* whatever its length (one of no bytes then fails the signature floor check
\* with 415 "File too small to be a valid image"); an error the translator
\* recognises comes back with the translator's status, message and kind,
\* "KeyNotFound" renamed "ImageNotFound"; an error it does not recognise is
\* wrapped as 500 FetchError with the underlying message; a successful
\* response returns the body with the declared content type.
C12_AbsentBodyIsNotFound ==
  (S3Fetch /\ pc = "done") =>
    IF origin.error # NoError THEN ClaimS3FetchFailure
    ELSE IF ~origin.body.present
    THEN ClaimImageNotFound /\ ~result.set
    ELSE /\ ClaimS3FetchReturned
         /\ origin.body.value = <<>> => outcome = Rejected(ClaimTooSmall)

C12_Witness ==
  /\ S3Fetch
  /\ pc = "done"
  /\ origin.error = NoError
  /\ origin.body = Some(<<>>)
  /\ result.set
  /\ result.buffer = <<>>
  /\ outcome = Rejected(ClaimTooSmall)

\* the members of the record of a fetch, as the specification lists them
ClaimRecordMembers ==
  <<"requestId", "component", "operation", "originType", "url", "contentType",
    "sizeBytes", "fetchDurationMs">>

ClaimMemberNames(line) == [i \in 1..Len(line.members) |-> line.members[i][1]]

ClaimMember(line, key) ==
  line.members[CHOOSE i \in 1..Len(line.members) : line.members[i][1] = key][2]

\* C13: fetchImage writes exactly one line to the console per successful
\* fetch, a record with exactly the members request id, component tag,
\* operation tag, origin kind, sanitized URL (query string stripped), declared
\* content type, byte length and fetch duration, and no line for a fetch that
\* fails; the record is written only once the body has passed the signature
\* checks, in the step that returns the result.
C13_OneRecordPerSuccessfulFetch ==
  op = "fetchImage" =>
    IF outcome.state = "resolved"
    THEN /\ Len(log) = 1
         /\ log[1].json
         /\ ClaimMemberNames(log[1]) = ClaimRecordMembers
         /\ ClaimMember(log[1], "requestId")
              = (IF requestId = "" THEN "unknown" ELSE requestId)
         /\ ClaimMember(log[1], "component") = "OriginFetcher"
         /\ ClaimMember(log[1], "operation") = "image_fetched"
         /\ ClaimMember(log[1], "originType") = (IF isS3Url(url) THEN "s3" ELSE "http")
         /\ ClaimMember(log[1], "url") = <<url.scheme, url.host, url.path>>
         /\ ClaimMember(log[1], "contentType") = result.contentType.value
         /\ ClaimMember(log[1], "sizeBytes") = Len(outcome.buffer)
         /\ ClaimMember(log[1], "fetchDurationMs") = now - startTime
    ELSE log = <<>>

\* C14: on the full HTTP fetch the status of the response is checked before
\* anything else about it: a final status outside 2xx (redirects followed)
\* fails with an HttpFetchError whose status code is the upstream status,
\* whatever the declared content type, and the body is neither drained nor
\* inspected (404 with text/html surfaces as 404, not 415).
C14_StatusBeforeAnythingElse ==
  (HttpFetch /\ origin.answered /\ origin.error = NoError
   /\ origin.status \notin 200..299) =>
    /\ pc = "done"
    /\ outcome.state = "rejected"
    /\ outcome.error.class = "ImageProcessingError"
    /\ outcome.error.errorType = "HttpFetchError"
    /\ outcome.error.statusCode = origin.status
    /\ ~origin.body.present
    /\ ~result.set
    /\ net = <<NetRequest("fetch", "GET", "follow", url)>>

C14_Witness ==
  /\ HttpFetch
  /\ pc = "done"
  /\ origin.status = 404
  /\ origin.contentType = Some(text_html)
  /\ outcome.error.errorType = "HttpFetchError"
  /\ outcome.error.statusCode = 404

\* the content types the probe accepts (C5)
ClaimAccepted(contentType) ==
  /\ contentType.present
  /\ \/ startsWith(ClaimMediaType(contentType), image_)
     \/ startsWith(ClaimMediaType(contentType), binaryOctetStream)

\* C15: validateOriginUrl changes two fields of the caller's request and no
\* other: the content-type slot is written, with the content type the origin
\* declared, only when the validator has passed, the probe has succeeded and
\* the content type was accepted; the elapsed time of the preflight is
\* recorded only if the request already carries the timing bucket, which the
\* probe never creates. A failing call (validator rejection, probe error,
\* rejected content type) and a call still in flight leave the request as it
\* was passed, and a validator rejection issues no network request.
C15_RequestFrame ==
  op = "validateOriginUrl" =>
    /\ request.timings = given.timings
    /\ request.requestResolution = given.requestResolution
    /\ IF outcome.state = "resolved"
       THEN /\ ~UrlValidator_validate(url).threw
            /\ Len(net) = 1
            /\ origin.answered
            /\ origin.error = NoError
            /\ ClaimAccepted(origin.contentType)
            /\ request.sourceImageContentType = origin.contentType
            /\ request.preflightValidationMs =
                 IF given.timings /\ given.requestResolution
                 THEN now - startTime
                 ELSE given.preflightValidationMs
       ELSE request = given
    /\ UrlValidator_validate(url).threw =>
         (net = <<>> /\ outcome.state = "rejected")

C15_Witness ==
  /\ ProbeDone
  /\ outcome.state = "resolved"
  /\ given = Request(Some(image_ \o png), TRUE, TRUE, 7)
  /\ origin.contentType = Some(image_ \o jpeg)
  /\ request.sourceImageContentType = Some(image_ \o jpeg)
  /\ request.preflightValidationMs = TickMs

====
